---- MODULE Spec2Model ----
(***************************************************************************)
(* Model of the env-var resolution engine of netlify-cli                   *)
(* (src/unnamed/part_000): findValueFromContext, filterEnvBySource,        *)
(* fetchEnvelopeItems, formatEnvelopeData, getEnvelopeEnv,                 *)
(* translateFromMongoToEnvelope and translateFromEnvelopeToMongo.          *)
(*                                                                         *)
(* JavaScript values are encoded as follows.                               *)
(*   - an array is a sequence;                                             *)
(*   - an object used as a dictionary is a record [order, map]: `order' is *)
(*     the sequence of its own keys in insertion order, `map' the function *)
(*     from key to value;                                                  *)
(*   - `undefined' is the record [undefined |-> TRUE];                     *)
(*   - a string is a string; the empty string is the only falsy one.       *)
(***************************************************************************)
EXTENDS Integers, Sequences, FiniteSets, TLC

\* itemsAtCall keeps the sequence of records as it was when it was handed
\* to formatEnvelopeData or translateFromEnvelopeToMongo; completed logs the
\* answers of the client in the order they arrive
VARIABLES pc, context, scope, source, key, env, siteInfo, envelopeItems,
          values, mongoEnv, envVars, itemsAtCall, accountFetch, siteFetch,
          calls, completed, result, fault

vars == <<pc, context, scope, source, key, env, siteInfo, envelopeItems,
          values, mongoEnv, envVars, itemsAtCall, accountFetch, siteFetch,
          calls, completed, result, fault>>

(***************************************************************************)
(* Bounds of the model                                                     *)
(***************************************************************************)
\* longest sequence of variable records handed to a function
MaxItems == 2
\* longest sequence of value entries handed to findValueFromContext
MaxValues == 3

(***************************************************************************)
(* Data                                                                    *)
(***************************************************************************)
undefined == [undefined |-> TRUE]

\* variable names; "A" and "a" differ only by case
Keys == {"A", "a", "b"}

\* String.prototype.toLowerCase on Keys
toLowerCase(str) == IF str = "A" THEN "a" ELSE IF str = "B" THEN "b" ELSE str

\* the < of JavaScript on the lower-cased strings of Keys
StringLess(left, right) == left = "a" /\ right = "b"

RequestedContexts == {"dev", "production"}
ValueContexts == {"dev", "production", "all"}
Scopes == {"builds", "functions", "runtime", "post_processing"}
RequestedScopes == {"any"} \cup Scopes
Sources == {"general", "account", "addons", "ui", "configFile"}
\* "" is the falsy string
Values == {"", "x", "y"}

ValueEntries == [context : ValueContexts, value : Values]

SeqsUpTo(S, n) == UNION {[1..m -> S] : m \in 0..n}

Range(seq) == {seq[i] : i \in 1..Len(seq)}

\* Array.prototype.includes
includes(seq, element) == element \in Range(seq)

(***************************************************************************)
(* Objects used as dictionaries                                            *)
(***************************************************************************)
EmptyObject == [order |-> <<>>, map |-> <<>>]

OwnKeys(object) == Range(object.order)

\* { ...object, [name]: value }: a new key is appended, an existing key
\* keeps its position and takes the new value
SetProperty(object, name, value) ==
  [order |-> IF name \in OwnKeys(object) THEN object.order
             ELSE Append(object.order, name),
   map |-> [k \in OwnKeys(object) \cup {name} |->
              IF k = name THEN value ELSE object.map[k]]]

\* { ...left, ...right }
RECURSIVE SpreadFrom(_, _, _)
SpreadFrom(left, right, i) ==
  IF i > Len(right.order) THEN left
  ELSE SpreadFrom(SetProperty(left, right.order[i], right.map[right.order[i]]),
                  right, i + 1)

Spread(left, right) == SpreadFrom(left, right, 1)

(***************************************************************************)
(* findValueFromContext (Context Matcher)                                  *)
(***************************************************************************)
\* the predicate of the find: [context, 'all'].includes(val.context)
ExactContextOnly(val, ctx) == val.context = ctx

contextMatches(val, ctx) == val.context \in {ctx, "all"}

\* Array.prototype.find: the first element from position i on that
\* satisfies the predicate, undefined when there is none
RECURSIVE FindFrom(_, _, _)
FindFrom(vals, ctx, i) ==
  IF i > Len(vals) THEN undefined
  ELSE IF contextMatches(vals[i], ctx) THEN vals[i]
  ELSE FindFrom(vals, ctx, i + 1)

findValueFromContext(vals, ctx) == FindFrom(vals, ctx, 1)

(***************************************************************************)
(* Array.prototype.sort with the comparator of the source                  *)
(***************************************************************************)
\* (left, right) => left.key.toLowerCase() < right.key.toLowerCase() ? -1 : 1
compareKeys(left, right) ==
  IF StringLess(toLowerCase(left.key), toLowerCase(right.key)) THEN -1 ELSE 1

Arrangements(n) == {p \in [1..n -> 1..n] : \A i, j \in 1..n : p[i] = p[j] => i = j}

\* The comparator never returns 0: for two keys that are equal when
\* lower-cased it answers 1 whichever way it is asked, so it is not a
\* consistent comparator and the order of such elements is
\* implementation-defined (a sort that asks compare(earlier, later) swaps
\* them, one that asks compare(later, earlier) keeps them).  The outcomes
\* are the permutations of the array in which no element is placed after
\* one the comparator ranks it below.
SortOutcomes(array) ==
  LET n == Len(array)
      Arranged(p) == [i \in 1..n |-> array[p[i]]]
  IN  {Arranged(p) : p \in {q \in Arrangements(n) :
         \A i, j \in 1..n :
            i < j => compareKeys(array[q[j]], array[q[i]]) # -1}}

(***************************************************************************)
(* formatEnvelopeData (Context/Scope Formatter)                            *)
(***************************************************************************)
\* .filter(({ values }) => Boolean(findValueFromContext(values, context)))
hasValueForContext(item, ctx) == findValueFromContext(item.values, ctx) # undefined

\* .filter(({ scopes }) => (scope === 'any' ? true : scopes.includes(scope)))
ScopeFilterWithoutAny(item, scp) == includes(item.scopes, scp)

inScope(item, scp) == IF scp = "any" THEN TRUE ELSE includes(item.scopes, scp)

filterItems(items, ctx, scp) ==
  LET Keep(item) == hasValueForContext(item, ctx) /\ inScope(item, scp)
  IN  SelectSeq(items, Keep)

\* the entry the reduce emits for one record
formatEntry(cur, ctx, src) ==
  LET found == findValueFromContext(cur.values, ctx)
  IN  [context |-> found.context, scopes |-> cur.scopes,
       sources |-> <<src>>, value |-> found.value]

\* .reduce((acc, cur) => ({ ...acc, [cur.key]: {...} }), {})
RECURSIVE reduceItems(_, _, _, _, _)
reduceItems(acc, sorted, i, ctx, src) ==
  IF i > Len(sorted) THEN acc
  ELSE reduceItems(SetProperty(acc, sorted[i].key, formatEntry(sorted[i], ctx, src)),
                   sorted, i + 1, ctx, src)

\* the objects formatEnvelopeData can return, one per outcome of the sort
formatEnvelopeData(ctx, items, scp, src) ==
  {reduceItems(EmptyObject, sorted, 1, ctx, src) :
     sorted \in SortOutcomes(filterItems(items, ctx, scp))}

(***************************************************************************)
(* filterEnvBySource (Source Filter)                                       *)
(***************************************************************************)
\* Object.fromEntries(Object.entries(env).filter(
\*   ([, variable]) => variable.sources[0] === source))
filterEnvBySource(object, src) ==
  LET Keep(name) == object.map[name].sources[1] = src
      kept == SelectSeq(object.order, Keep)
  IN  [order |-> kept, map |-> [k \in Range(kept) |-> object.map[k]]]

(***************************************************************************)
(* fetchEnvelopeItems (Remote Fetcher)                                     *)
(*                                                                         *)
(* A parameter that is undefined is a field the argument record lacks.     *)
(* A fetch is a promise: not yet called ("idle"), waiting for the client   *)
(* ("pending"), or settled with the value the function returns; isArray    *)
(* tells an array from the plain object {}.                                *)
(***************************************************************************)
IdleFetch == [status |-> "idle"]

PendingFetch(request) == [status |-> "pending", request |-> request]

Fulfilled(isArray, items) ==
  [status |-> "fulfilled", isArray |-> isArray, items |-> items]

Rejected == [status |-> "rejected"]

\* accountId === undefined: return {}
returnWithoutAccount == Fulfilled(FALSE, <<>>)

\* the request sent to the client: getEnvVar when a key is passed,
\* getEnvVars otherwise
clientRequest(args) ==
  [method |-> IF args.key # "" THEN "getEnvVar" ELSE "getEnvVars"] @@ args

\* the part of fetchEnvelopeItems that runs when it is called, up to its
\* first await
startFetch(args) ==
  IF "accountId" \notin DOMAIN args THEN returnWithoutAccount
  ELSE PendingFetch(clientRequest(args))

\* what the function returns when the client answers: [envelopeItem] for
\* getEnvVar, envelopeItems for getEnvVars
returnItems(request, answer) ==
  IF request.method = "getEnvVar" THEN Fulfilled(TRUE, <<answer>>)
  ELSE Fulfilled(TRUE, answer)

\* catch { return [] }
RethrowFailure == Rejected

returnOnFailure == Fulfilled(TRUE, <<>>)

(***************************************************************************)
(* getEnvelopeEnv (Env Resolver)                                           *)
(***************************************************************************)
\* const { account_slug: accountId, id: siteId } = siteInfo, then the
\* argument of the account-level call: { api, accountId, key }
accountFetchArgs(info, k) ==
  IF "account_slug" \in DOMAIN info
  THEN [accountId |-> info.account_slug, key |-> k]
  ELSE [key |-> k]

\* the argument of the site-level call: { api, accountId, key, siteId }
siteFetchArgs(info, k) == accountFetchArgs(info, k) @@ [siteId |-> info.id]

\* Promise.all([...]) destructured into
\* [accountEnvelopeItems, siteEnvelopeItems]: by position in the array
ResultsByCompletion(accountPromise, sitePromise, arrival) ==
  IF arrival # <<>> /\ arrival[1].fetch = "site"
  THEN <<sitePromise, accountPromise>>
  ELSE <<accountPromise, sitePromise>>

promiseAllResults(accountPromise, sitePromise, arrival) ==
  <<accountPromise, sitePromise>>

\* ['any', 'builds', 'post_processing'].includes(scope)
IncludeAlways(scp) == TRUE

includeConfigEnvVars(scp) == scp \in {"any", "builds", "post_processing"}

\* the object spread of the return statement, lowest precedence first
SiteBelowAccount(generalEnv, accountEnv, addonsEnv, siteEnv, configFileEnv, include) ==
  Spread(Spread(Spread(Spread(generalEnv, siteEnv),
                       IF include THEN addonsEnv ELSE EmptyObject),
                accountEnv),
         IF include THEN configFileEnv ELSE EmptyObject)

mergeSources(generalEnv, accountEnv, addonsEnv, siteEnv, configFileEnv, include) ==
  Spread(Spread(Spread(Spread(Spread(EmptyObject, generalEnv), accountEnv),
                       IF include THEN addonsEnv ELSE EmptyObject),
                siteEnv),
         IF include THEN configFileEnv ELSE EmptyObject)

\* the objects getEnvelopeEnv can return once both fetches returned arrays
resolveEnv(ctx, legacy, scp, accountItems, siteItems) ==
  {mergeSources(filterEnvBySource(legacy, "general"), accountEnv,
                filterEnvBySource(legacy, "addons"), siteEnv,
                filterEnvBySource(legacy, "configFile"),
                includeConfigEnvVars(scp)) :
     accountEnv \in formatEnvelopeData(ctx, accountItems, scp, "account"),
     siteEnv \in formatEnvelopeData(ctx, siteItems, scp, "ui")}

(***************************************************************************)
(* translateFromMongoToEnvelope, translateFromEnvelopeToMongo              *)
(* (Shape Translator)                                                      *)
(***************************************************************************)
translateFromMongoToEnvelope(object) ==
  [i \in 1..Len(object.order) |->
     [key |-> object.order[i],
      scopes |-> <<"builds", "functions", "runtime", "post_processing">>,
      values |-> <<[context |-> "all", value |-> object.map[object.order[i]]]>>]]

\* cur.values.find((val) => ['dev', 'all'].includes(val.context))
RECURSIVE findDevOrAll(_, _)
findDevOrAll(vals, i) ==
  IF i > Len(vals) THEN undefined
  ELSE IF vals[i].context \in {"dev", "all"} THEN vals[i]
  ELSE findDevOrAll(vals, i + 1)

\* if (envVar && envVar.value)
KeepFalsyValues(envVar) == envVar # undefined

hasTruthyValue(envVar) == envVar # undefined /\ envVar.value # ""

\* .reduce((acc, cur) => ..., {}) over the sorted array
RECURSIVE reduceToMongo(_, _, _)
reduceToMongo(acc, sorted, i) ==
  IF i > Len(sorted) THEN acc
  ELSE LET envVar == findDevOrAll(sorted[i].values, 1)
       IN  reduceToMongo(IF hasTruthyValue(envVar)
                         THEN SetProperty(acc, sorted[i].key, envVar.value)
                         ELSE acc,
                         sorted, i + 1)

(***************************************************************************)
(* Inputs                                                                  *)
(***************************************************************************)
UniqueKeySeqs(records, n) ==
  {s \in SeqsUpTo(records, n) :
     \A i, j \in 1..Len(s) : s[i].key = s[j].key => i = j}

ScopeSamples == {<<"builds">>, <<"functions", "runtime">>}

\* value entries of one record: at most one per context
ValueSamples ==
  {<<>>,
   <<[context |-> "production", value |-> "x"]>>,
   <<[context |-> "dev", value |-> "x"], [context |-> "all", value |-> "y"]>>,
   <<[context |-> "all", value |-> "y"], [context |-> "dev", value |-> "x"]>>}

EnvelopeRecords == [key : Keys, scopes : ScopeSamples, values : ValueSamples]

EnvelopeItemSeqs == UniqueKeySeqs(EnvelopeRecords, MaxItems)

\* the flat envs of the Mongo shape, keys in insertion order
MongoEnvs ==
  {[order |-> names, map |-> vals] :
     names \in {s \in SeqsUpTo(Keys, MaxItems) :
                  \A i, j \in 1..Len(s) : s[i] = s[j] => i = j},
     vals \in UNION {[D -> Values] : D \in SUBSET Keys}}

WellFormedMongoEnvs == {e \in MongoEnvs : DOMAIN e.map = Range(e.order)}

\* the legacy flat env of the resolver: per key, the sources of its entry,
\* highest first, or <<>> when the env has no such key
LegacyKeys == {"a", "b"}

LegacySources ==
  {<<>>, <<"general">>, <<"addons">>, <<"ui">>, <<"configFile">>,
   <<"configFile", "general">>}

LegacyEnv(sourcesOf) ==
  LET Present(name) == sourcesOf[name] # <<>>
      names == SelectSeq(<<"a", "b">>, Present)
  IN  [order |-> names,
       map |-> [k \in Range(names) |-> [sources |-> sourcesOf[k], value |-> "y"]]]

LegacyEnvs == {LegacyEnv(f) : f \in [LegacyKeys -> LegacySources]}

\* what the variable service holds for an account or a site
ServiceRecords ==
  {[key |-> k, scopes |-> <<"builds">>,
    values |-> <<[context |-> "dev", value |-> "x"]>>] : k \in LegacyKeys}
  \cup
  {[key |-> k, scopes |-> <<"functions", "post_processing">>,
    values |-> <<[context |-> "all", value |-> "x"]>>] : k \in LegacyKeys}

\* the answers of the client to one request
Answers(request) ==
  IF request.method = "getEnvVar"
  THEN {r \in ServiceRecords : r.key = request.key}
  ELSE UniqueKeySeqs(ServiceRecords, MaxItems)

SiteInfos == {[account_slug |-> "team", id |-> "site"], [id |-> "site"]}

(***************************************************************************)
(* State                                                                   *)
(***************************************************************************)
\* the variables an operation does not use
IdleResolver ==
  /\ key = ""
  /\ env = EmptyObject
  /\ siteInfo = [id |-> "site"]
  /\ accountFetch = IdleFetch
  /\ siteFetch = IdleFetch
  /\ calls = <<>>
  /\ completed = <<>>
  /\ fault = FALSE

IdleFormatter ==
  /\ source = "ui"
  /\ envelopeItems = <<>>

IdleTranslator ==
  /\ mongoEnv = undefined
  /\ envVars = <<>>

\* a call of findValueFromContext
InitFind ==
  /\ pc = "find"
  /\ values \in SeqsUpTo(ValueEntries, MaxValues)
  /\ context \in RequestedContexts
  /\ scope = "any"
  /\ itemsAtCall = <<>>
  /\ result = undefined
  /\ IdleResolver /\ IdleFormatter /\ IdleTranslator

\* a call of formatEnvelopeData
InitFormat ==
  /\ pc = "format"
  /\ envelopeItems \in EnvelopeItemSeqs
  /\ context \in RequestedContexts
  /\ scope \in RequestedScopes
  /\ source \in {"account", "ui"}
  /\ itemsAtCall = envelopeItems
  /\ values = <<>>
  /\ result = undefined
  /\ IdleResolver /\ IdleTranslator

\* a call of getEnvelopeEnv
InitResolve ==
  /\ pc = "getEnvelopeEnv"
  /\ context \in RequestedContexts
  /\ scope \in RequestedScopes
  /\ env \in LegacyEnvs
  /\ key \in {"", "a"}
  /\ siteInfo \in SiteInfos
  /\ accountFetch = IdleFetch
  /\ siteFetch = IdleFetch
  /\ calls = <<>>
  /\ completed = <<>>
  /\ fault = FALSE
  /\ itemsAtCall = <<>>
  /\ values = <<>>
  /\ result = undefined
  /\ IdleFormatter /\ IdleTranslator

\* a call of translateFromMongoToEnvelope followed by one of
\* translateFromEnvelopeToMongo on its result, or a call of
\* translateFromEnvelopeToMongo alone
InitTranslate ==
  /\ \/ /\ pc = "mongo"
        /\ mongoEnv \in WellFormedMongoEnvs
        /\ envVars = <<>>
     \/ /\ pc = "envelope"
        /\ mongoEnv = undefined
        /\ envVars \in EnvelopeItemSeqs
  /\ itemsAtCall = envVars
  /\ context = "dev"
  /\ scope = "any"
  /\ values = <<>>
  /\ result = undefined
  /\ IdleResolver /\ IdleFormatter

Init == InitFind \/ InitFormat \/ InitResolve \/ InitTranslate

(***************************************************************************)
(* Operations                                                              *)
(***************************************************************************)
FindValueFromContext ==
  /\ pc = "find"
  /\ result' = findValueFromContext(values, context)
  /\ pc' = "found"
  /\ UNCHANGED <<context, scope, source, key, env, siteInfo, envelopeItems,
                 values, mongoEnv, envVars, itemsAtCall, accountFetch,
                 siteFetch, calls, completed, fault>>

\* the filters copy the array, so the sort works on the copy and
\* envelopeItems is left as it was
FormatEnvelopeData ==
  /\ pc = "format"
  /\ result' \in formatEnvelopeData(context, envelopeItems, scope, source)
  /\ pc' = "formatted"
  /\ UNCHANGED <<context, scope, source, key, env, siteInfo, envelopeItems,
                 values, mongoEnv, envVars, itemsAtCall, accountFetch,
                 siteFetch, calls, completed, fault>>

\* the first element of the array handed to Promise.all: the account-level
\* fetch is called and runs to its first await
CallAccountFetch ==
  /\ pc = "getEnvelopeEnv"
  /\ accountFetch' = startFetch(accountFetchArgs(siteInfo, key))
  /\ calls' = IF accountFetch'.status = "pending"
              THEN Append(calls, accountFetch'.request) ELSE calls
  /\ pc' = "accountCalled"
  /\ UNCHANGED <<context, scope, source, key, env, siteInfo, envelopeItems,
                 values, mongoEnv, envVars, itemsAtCall, siteFetch,
                 completed, result, fault>>

\* the second element: the site-level fetch
CallSiteFetch ==
  /\ pc = "accountCalled"
  /\ siteFetch' = startFetch(siteFetchArgs(siteInfo, key))
  /\ calls' = IF siteFetch'.status = "pending"
              THEN Append(calls, siteFetch'.request) ELSE calls
  /\ pc' = "awaiting"
  /\ UNCHANGED <<context, scope, source, key, env, siteInfo, envelopeItems,
                 values, mongoEnv, envVars, itemsAtCall, accountFetch,
                 completed, result, fault>>

\* getEnvelopeEnv runs to its await without yielding, so no answer of the
\* client is handled before both fetches are called
SettleBeforeAwait == pc \in {"accountCalled", "awaiting"}

settleEnabled == pc = "awaiting"

\* the client answers the account-level request, or fails; completed logs
\* the order and the outcome of the answers
SettleAccountFetch ==
  /\ settleEnabled
  /\ accountFetch.status = "pending"
  /\ \/ /\ \E answer \in Answers(accountFetch.request) :
             accountFetch' = returnItems(accountFetch.request, answer)
        /\ completed' = Append(completed, [fetch |-> "account", outcome |-> "answered"])
     \/ /\ accountFetch' = returnOnFailure
        /\ completed' = Append(completed, [fetch |-> "account", outcome |-> "failed"])
  /\ UNCHANGED <<pc, context, scope, source, key, env, siteInfo, envelopeItems,
                 values, mongoEnv, envVars, itemsAtCall, siteFetch, calls,
                 result, fault>>

\* the client answers the site-level request, or fails
SettleSiteFetch ==
  /\ settleEnabled
  /\ siteFetch.status = "pending"
  /\ \/ /\ \E answer \in Answers(siteFetch.request) :
             siteFetch' = returnItems(siteFetch.request, answer)
        /\ completed' = Append(completed, [fetch |-> "site", outcome |-> "answered"])
     \/ /\ siteFetch' = returnOnFailure
        /\ completed' = Append(completed, [fetch |-> "site", outcome |-> "failed"])
  /\ UNCHANGED <<pc, context, scope, source, key, env, siteInfo, envelopeItems,
                 values, mongoEnv, envVars, itemsAtCall, accountFetch, calls,
                 result, fault>>

Settled(promise) == promise.status \in {"fulfilled", "rejected"}

\* the rest of getEnvelopeEnv, once Promise.all has settled: a rejected
\* fetch rejects the call; formatEnvelopeData calls .filter on what the
\* fetch returned, which throws a TypeError when that is not an array
MergeEnv ==
  /\ pc = "awaiting"
  /\ Settled(accountFetch) /\ Settled(siteFetch)
  /\ LET fetched == promiseAllResults(accountFetch, siteFetch, completed)
     IN  IF \/ fetched[1].status = "rejected" \/ fetched[2].status = "rejected"
            \/ ~fetched[1].isArray \/ ~fetched[2].isArray
         THEN /\ fault' = TRUE
              /\ pc' = "rejected"
              /\ UNCHANGED result
         ELSE /\ result' \in resolveEnv(context, env, scope,
                                        fetched[1].items, fetched[2].items)
              /\ pc' = "resolved"
              /\ UNCHANGED fault
  /\ UNCHANGED <<context, scope, source, key, env, siteInfo, envelopeItems,
                 values, mongoEnv, envVars, itemsAtCall, accountFetch,
                 siteFetch, calls, completed>>

TranslateFromMongoToEnvelope ==
  /\ pc = "mongo"
  /\ envVars' = translateFromMongoToEnvelope(mongoEnv)
  /\ itemsAtCall' = envVars'
  /\ pc' = "envelope"
  /\ UNCHANGED <<context, scope, source, key, env, siteInfo, envelopeItems,
                 values, mongoEnv, accountFetch, siteFetch, calls, completed,
                 result, fault>>

\* envVars.sort(...) sorts the array it is called on, which is the
\* argument itself
TranslateFromEnvelopeToMongo ==
  /\ pc = "envelope"
  /\ envVars' \in SortOutcomes(envVars)
  /\ result' = reduceToMongo(EmptyObject, envVars', 1)
  /\ pc' = "translated"
  /\ UNCHANGED <<context, scope, source, key, env, siteInfo, envelopeItems,
                 values, mongoEnv, itemsAtCall, accountFetch, siteFetch,
                 calls, completed, fault>>

NextFind == FindValueFromContext

NextFormat == FormatEnvelopeData

NextResolve ==
  \/ CallAccountFetch
  \/ CallSiteFetch
  \/ SettleAccountFetch
  \/ SettleSiteFetch
  \/ MergeEnv

NextTranslate == TranslateFromMongoToEnvelope \/ TranslateFromEnvelopeToMongo

Next == NextFind \/ NextFormat \/ NextResolve \/ NextTranslate

SpecFind == InitFind /\ [][NextFind]_vars

SpecFormat == InitFormat /\ [][NextFormat]_vars

SpecResolve == InitResolve /\ [][NextResolve]_vars

SpecTranslate == InitTranslate /\ [][NextTranslate]_vars

Spec == Init /\ [][Next]_vars

(***************************************************************************)
(* Properties                                                              *)
(*                                                                         *)
(* The operators below state what the functions are to return without      *)
(* using the operators that model them.                                    *)
(***************************************************************************)
\* the positions of vals whose context is ctx or all
MatchPositions(vals, ctx) ==
  {i \in 1..Len(vals) : vals[i].context = ctx \/ vals[i].context = "all"}

LowestMatch(vals, ctx) ==
  CHOOSE i \in MatchPositions(vals, ctx) :
    \A j \in MatchPositions(vals, ctx) : i <= j

\* the record has a value for the context and is exposed to the scope
Selected(item, ctx, scp) ==
  /\ MatchPositions(item.values, ctx) # {}
  /\ scp = "any" \/ \E i \in 1..Len(item.scopes) : item.scopes[i] = scp

EntryOf(item, ctx, src) ==
  [context |-> item.values[LowestMatch(item.values, ctx)].context,
   scopes |-> item.scopes,
   sources |-> <<src>>,
   value |-> item.values[LowestMatch(item.values, ctx)].value]

\* the mapping of the selected records of items, whose keys are unique
FormattedBucket(items, ctx, scp, src) ==
  LET chosen == {i \in 1..Len(items) : Selected(items[i], ctx, scp)}
      At(k) == CHOOSE i \in chosen : items[i].key = k
  IN  [k \in {items[i].key : i \in chosen} |-> EntryOf(items[At(k)], ctx, src)]

\* the entries of the legacy env whose first source is src
LegacyBucket(src) ==
  [k \in {n \in DOMAIN env.map : env.map[n].sources[1] = src} |-> env.map[k]]

BucketOf(src, accountItems, siteItems) ==
  CASE src = "account" -> FormattedBucket(accountItems, context, scope, "account")
    [] src = "ui" -> FormattedBucket(siteItems, context, scope, "ui")
    [] OTHER -> LegacyBucket(src)

Precedence == <<"general", "account", "addons", "ui", "configFile">>

RankOf(src) == CHOOSE i \in 1..Len(Precedence) : Precedence[i] = src

ConfigScopes == {"any", "builds", "post_processing"}

MergedSources ==
  {"general", "account", "ui"}
    \cup (IF scope \in ConfigScopes THEN {"addons", "configFile"} ELSE {})

\* map has the keys of the merged sources and, for each key, the whole
\* entry of the highest source that has the key
HighestSourceWins(map, accountItems, siteItems) ==
  /\ DOMAIN map =
       UNION {DOMAIN BucketOf(src, accountItems, siteItems) : src \in MergedSources}
  /\ \A k \in DOMAIN map :
       \E src \in MergedSources :
         /\ k \in DOMAIN BucketOf(src, accountItems, siteItems)
         /\ \A other \in MergedSources :
              k \in DOMAIN BucketOf(other, accountItems, siteItems)
                => RankOf(other) <= RankOf(src)
         /\ map[k] = BucketOf(src, accountItems, siteItems)[k]

HasAccount == "account_slug" \in DOMAIN siteInfo

Returned == pc \in {"resolved", "rejected"}

Failed(name) ==
  \E i \in 1..Len(completed) :
    completed[i].fetch = name /\ completed[i].outcome = "failed"

\* C1: the mapping getEnvelopeEnv returns has as keys the union of the keys
\* of the merged sources (general, account, addons, ui, configFile, the
\* latter two when the scope admits them), and for a key present in several
\* sources the whole entry is the one of the highest source in the order
\* general < account < addons < ui < configFile.
C1_HighestSourceWins ==
  pc = "resolved" =>
    HighestSourceWins(result.map, accountFetch.items, siteFetch.items)

\* a key held by general, account, ui and configFile at once, resolved to
\* the configFile entry, next to a key only the account has
C1_Witness ==
  /\ pc = "resolved"
  /\ \E k \in DOMAIN result.map :
       /\ k \in DOMAIN LegacyBucket("configFile")
       /\ k \in DOMAIN BucketOf("account", accountFetch.items, siteFetch.items)
       /\ k \in DOMAIN BucketOf("ui", accountFetch.items, siteFetch.items)
       /\ result.map[k] = env.map[k]
  /\ \E k \in DOMAIN result.map :
       /\ k \in DOMAIN LegacyBucket("general")
       /\ k \in DOMAIN BucketOf("account", accountFetch.items, siteFetch.items)
       /\ k \in DOMAIN BucketOf("ui", accountFetch.items, siteFetch.items)
       /\ result.map[k].sources = <<"ui">>

\* C2: legacy entries whose first source is addons or configFile are in the
\* result only when the scope is any, builds or post_processing; for the
\* scopes functions and runtime no entry of the result has addons or
\* configFile as its source, while the general, account and ui entries are
\* merged for every scope.
C2_ConfigScopesOnly ==
  pc = "resolved" =>
    /\ scope \notin ConfigScopes =>
         \A k \in DOMAIN result.map :
           result.map[k].sources[1] \notin {"addons", "configFile"}
    /\ scope \in ConfigScopes =>
         /\ DOMAIN LegacyBucket("addons") \subseteq DOMAIN result.map
         /\ \A k \in DOMAIN LegacyBucket("configFile") :
              k \in DOMAIN result.map /\ result.map[k] = env.map[k]
    /\ \A src \in {"general", "account", "ui"} :
         DOMAIN BucketOf(src, accountFetch.items, siteFetch.items)
           \subseteq DOMAIN result.map

\* the scope functions, a legacy env with an addons and a configFile entry,
\* and a result that still holds an account or ui entry
C2_Witness ==
  /\ pc = "resolved"
  /\ scope = "functions"
  /\ LegacyBucket("addons") # <<>>
  /\ LegacyBucket("configFile") # <<>>
  /\ \E k \in DOMAIN result.map : result.map[k].sources[1] \in {"account", "ui"}

\* C3: without an account identifier the fetches return an empty result
\* without calling the client, and getEnvelopeEnv completes without a fault
\* and returns the merge of the legacy general, addons and configFile
\* entries only.
C3_NoAccountIsNoError ==
  (Returned /\ ~HasAccount) =>
    /\ calls = <<>>
    /\ ~fault
    /\ pc = "resolved"
    /\ HighestSourceWins(result.map, <<>>, <<>>)

\* C4: with an account identifier, a failing client call makes that fetch
\* yield an empty sequence and raises no fault: getEnvelopeEnv returns the
\* mapping it would return had the failed fetch answered with no record.
C4_FailureIsEmpty ==
  (Returned /\ HasAccount /\ (Failed("account") \/ Failed("site"))) =>
    /\ ~fault
    /\ pc = "resolved"
    /\ Failed("account") => accountFetch = Fulfilled(TRUE, <<>>)
    /\ Failed("site") => siteFetch = Fulfilled(TRUE, <<>>)
    /\ HighestSourceWins(result.map,
                         IF Failed("account") THEN <<>> ELSE accountFetch.items,
                         IF Failed("site") THEN <<>> ELSE siteFetch.items)

\* the account-level call failed, the site-level call answered, and the
\* result holds a ui entry and no account entry
C4_Witness ==
  /\ pc = "resolved"
  /\ Failed("account") /\ ~Failed("site")
  /\ \E k \in DOMAIN result.map : result.map[k].sources = <<"ui">>
  /\ \A k \in DOMAIN result.map : result.map[k].sources # <<"account">>

\* C5: the round trip translateFromEnvelopeToMongo(
\* translateFromMongoToEnvelope(env)) gives the keys of env whose value is
\* truthy, each with its value: all of env when every value is truthy.
C5_RoundTrip ==
  (pc = "translated" /\ mongoEnv # undefined) =>
    /\ OwnKeys(result) = DOMAIN result.map
    /\ DOMAIN result.map = {k \in DOMAIN mongoEnv.map : mongoEnv.map[k] # ""}
    /\ \A k \in DOMAIN result.map : result.map[k] = mongoEnv.map[k]

\* a round trip of an env with a truthy and an empty value
C5_Witness ==
  /\ pc = "translated"
  /\ mongoEnv # undefined
  /\ \E k \in DOMAIN mongoEnv.map : mongoEnv.map[k] = ""
  /\ \E k \in DOMAIN mongoEnv.map : mongoEnv.map[k] # "" /\ k \in DOMAIN result.map

\* C6: formatEnvelopeData returns a mapping that has a key exactly for the
\* records with a value entry for the requested context (or all) that are
\* exposed to the requested scope (or the scope is any), and the entry of a
\* key is {context, scopes, sources: [source], value} of the record's first
\* matching value entry.
C6_FormatSelects ==
  pc = "formatted" =>
    /\ OwnKeys(result) = DOMAIN result.map
    /\ result.map = FormattedBucket(envelopeItems, context, scope, source)

\* two records, one dropped by the scope filter, the other kept with an all
\* entry standing before the entry of the requested context
C6_Witness ==
  /\ pc = "formatted"
  /\ scope # "any"
  /\ Len(envelopeItems) = MaxItems
  /\ \E i \in 1..Len(envelopeItems) :
       /\ MatchPositions(envelopeItems[i].values, context) # {}
       /\ envelopeItems[i].key \notin DOMAIN result.map
  /\ \E k \in DOMAIN result.map : result.map[k].context = "all"

\* C7: findValueFromContext returns the entry at the lowest position whose
\* context is the requested one or all, and undefined when there is none;
\* an all entry that precedes the entry of the requested context wins.
C7_FirstMatch ==
  pc = "found" =>
    IF MatchPositions(values, context) = {}
    THEN result = undefined
    ELSE result = values[LowestMatch(values, context)]

\* an all entry before the entry of the requested context
C7_Witness ==
  /\ pc = "found"
  /\ Len(values) >= 2
  /\ values[1].context = "all"
  /\ values[2].context = context
  /\ values[1].value # values[2].value
  /\ result = values[1]

\* C8: no function mutates its arguments: after translateFromEnvelopeToMongo
\* the sequence of records it was handed has the same elements in the same
\* order as at the call, and so has the one handed to formatEnvelopeData.
C8_ArgumentsUntouched ==
  /\ pc = "translated" => envVars = itemsAtCall
  /\ pc = "formatted" => envelopeItems = itemsAtCall

\* the position in items of the record with key k
PositionOf(items, k) == CHOOSE i \in 1..Len(items) : items[i].key = k

C10_FetchesInParallel ==
  HasAccount =>
    /\ completed # <<>> =>
         /\ Len(calls) = 2
         /\ "siteId" \notin DOMAIN calls[1]
         /\ "siteId" \in DOMAIN calls[2] /\ calls[2].siteId = siteInfo.id
    /\ Returned =>
         /\ Len(completed) = 2
         /\ completed[1].fetch # completed[2].fetch
    /\ pc = "resolved" =>
         \A k \in DOMAIN result.map :
           /\ result.map[k].sources = <<"account">> =>
                \E i \in 1..Len(accountFetch.items) :
                  /\ accountFetch.items[i].key = k
                  /\ result.map[k] = EntryOf(accountFetch.items[i], context, "account")
           /\ result.map[k].sources = <<"ui">> =>
                \E i \in 1..Len(siteFetch.items) :
                  /\ siteFetch.items[i].key = k
                  /\ result.map[k] = EntryOf(siteFetch.items[i], context, "ui")

\* the site-level answer arrives first, the two answers differ, and the
\* result holds an account entry and a ui entry
C10_Witness ==
  /\ pc = "resolved"
  /\ completed[1].fetch = "site"
  /\ accountFetch.items # siteFetch.items
  /\ \E k \in DOMAIN result.map : result.map[k].sources = <<"account">>
  /\ \E k \in DOMAIN result.map : result.map[k].sources = <<"ui">>

====
